---- MODULE Spec2Model ----
(***************************************************************************)
(* Step-wise Dijkstra engine of the graph visualizer                        *)
(* (src/src/utils/dijkstra.ts, src/src/utils/graphUtils.ts).                *)
(*                                                                          *)
(* A JavaScript Map is a sequence of [key, value] entries in insertion      *)
(* order; the Set unvisitedNodes is a sequence of distinct ids in insertion *)
(* order (both orders are observed by the code); the Set visitedNodes is    *)
(* only queried with has() and is a plain set.  null ids are NullId, the    *)
(* number Infinity and a null number are the integers Infinity and          *)
(* NullNumber, handled only through Less, Plus and OrElse.  A nullable      *)
(* array is a record [isNull, path].                                        *)
(***************************************************************************)
EXTENDS Integers, Sequences, FiniteSets, TLC

\* ------------------------------------------------------------------ bounds
MaxWeight == 3

\* --------------------------------------------------------- value encoding
Infinity == 1000000
NullNumber == -1
NullId == "null"
NullPath == [isNull |-> TRUE, path |-> <<>>]
SomePath(p) == [isNull |-> FALSE, path |-> p]

\* a + b on numbers where either may be Infinity
Plus(a, b) == IF a = Infinity \/ b = Infinity THEN Infinity ELSE a + b
\* a < b on numbers where either may be Infinity
Less(a, b) == IF a = Infinity THEN FALSE ELSE IF b = Infinity THEN TRUE ELSE a < b
\* the idiom  x || d  on a number (0 is falsy)
OrElse(x, d) == IF x = 0 THEN d ELSE x

\* ------------------------------------------------------------ Map helpers
MapHas(m, k) == \E i \in 1..Len(m) : m[i].key = k
MapIndex(m, k) == CHOOSE i \in 1..Len(m) : m[i].key = k
MapGet(m, k) == m[MapIndex(m, k)].value
MapSet(m, k, v) ==
    IF MapHas(m, k)
    THEN [m EXCEPT ![MapIndex(m, k)] = [key |-> k, value |-> v]]
    ELSE Append(m, [key |-> k, value |-> v])
MapKeys(m) == [i \in 1..Len(m) |-> m[i].key]
\* the idiom  map.get(k) || d  on a Map of numbers
GetNumberOr(m, k, d) == IF MapHas(m, k) THEN OrElse(MapGet(m, k), d) ELSE d
\* the idiom  map.get(k) || null  on a Map of ids
GetIdOrNull(m, k) == IF MapHas(m, k) THEN MapGet(m, k) ELSE NullId
\* mutant: Set.delete removes nothing
SetDeleteNothing(s, k) == s
\* Set.delete on an insertion-ordered Set
SetDelete(s, k) == SelectSeq(s, LAMBDA x : x # k)
SeqToSet(s) == {s[i] : i \in 1..Len(s)}
\* mutant: the visited set is rebuilt from the added id alone
SetAddAlone(s, k) == {k}
\* Set.add on a Set that is only queried with has()
SetAdd(s, k) == s \cup {k}

\* ------------------------------------------------------------ graphUtils
RECURSIVE AddEdges(_, _, _)
AddEdges(adjacencyList, edges, i) ==
    IF i > Len(edges) THEN adjacencyList
    ELSE LET edge == edges[i]
             sourceConnections ==
                 IF MapHas(adjacencyList, edge.source)
                 THEN MapGet(adjacencyList, edge.source) ELSE <<>>
             al1 == MapSet(adjacencyList, edge.source,
                        Append(sourceConnections,
                               [node |-> edge.target, weight |-> edge.weight]))
             targetConnections ==
                 IF MapHas(adjacencyList, edge.target)
                 THEN MapGet(al1, edge.target) ELSE <<>>
             al2 == MapSet(al1, edge.target,
                        Append(targetConnections,
                               [node |-> edge.source, weight |-> edge.weight]))
         IN AddEdges(al2, edges, i + 1)

\* mutant: edges inserted in the source-to-target direction only
RECURSIVE AddEdgesDirected(_, _, _)
AddEdgesDirected(adjacencyList, edges, i) ==
    IF i > Len(edges) THEN adjacencyList
    ELSE LET edge == edges[i]
             sourceConnections ==
                 IF MapHas(adjacencyList, edge.source)
                 THEN MapGet(adjacencyList, edge.source) ELSE <<>>
         IN AddEdgesDirected(
                MapSet(adjacencyList, edge.source,
                       Append(sourceConnections,
                              [node |-> edge.target, weight |-> edge.weight])),
                edges, i + 1)
createAdjacencyListDirected(graph) ==
    AddEdgesDirected([i \in 1..Len(graph.nodes) |->
                         [key |-> graph.nodes[i].id, value |-> <<>>]],
                     graph.edges, 1)

createAdjacencyList(graph) ==
    AddEdges([i \in 1..Len(graph.nodes) |->
                 [key |-> graph.nodes[i].id, value |-> <<>>]],
             graph.edges, 1)

generateDemoGraph ==
    [nodes |-> << [id |-> "A", status |-> "default"],
                  [id |-> "B", status |-> "default"],
                  [id |-> "C", status |-> "default"],
                  [id |-> "D", status |-> "default"],
                  [id |-> "E", status |-> "default"] >>,
     edges |-> << [id |-> "A-B", source |-> "A", target |-> "B", weight |-> 4, status |-> "default"],
                  [id |-> "A-D", source |-> "A", target |-> "D", weight |-> 3, status |-> "default"],
                  [id |-> "B-C", source |-> "B", target |-> "C", weight |-> 5, status |-> "default"],
                  [id |-> "B-D", source |-> "B", target |-> "D", weight |-> 2, status |-> "default"],
                  [id |-> "C-D", source |-> "C", target |-> "D", weight |-> 1, status |-> "default"],
                  [id |-> "C-E", source |-> "C", target |-> "E", weight |-> 6, status |-> "default"],
                  [id |-> "D-E", source |-> "D", target |-> "E", weight |-> 8, status |-> "default"] >>]

\* ---------------------------------------------------------------- dijkstra
\* mutant: the start node is not given distance 0
InitialDistanceAllInfinite(nodeId, startNodeId) == Infinity
InitialDistance(nodeId, startNodeId) == IF nodeId = startNodeId THEN 0 ELSE Infinity

\* mutant: a node other than the start keeps whatever status it had
InitialStatusKeep(node, startNodeId) ==
    IF node.id = startNodeId THEN "start" ELSE node.status
InitialStatus(node, startNodeId) ==
    IF node.id = startNodeId THEN "start"
    ELSE IF node.status = "end" THEN "end" ELSE "default"

initializeDijkstra(graph, startNodeId) ==
    [distances |-> [i \in 1..Len(graph.nodes) |->
                      [key |-> graph.nodes[i].id,
                       value |-> InitialDistance(graph.nodes[i].id, startNodeId)]],
     previous |-> [i \in 1..Len(graph.nodes) |->
                      [key |-> graph.nodes[i].id, value |-> NullId]],
     currentNode |-> startNodeId,
     visitedNodes |-> {},
     unvisitedNodes |-> [i \in 1..Len(graph.nodes) |-> graph.nodes[i].id],
     graph |-> [nodes |-> [i \in 1..Len(graph.nodes) |->
                             [graph.nodes[i] EXCEPT
                                !.status = InitialStatus(graph.nodes[i], startNodeId)]],
                edges |-> graph.edges],
     isDone |-> FALSE,
     shortestPath |-> NullPath]

VisitStatus(node, currentNodeId, visitedNodes) ==
    IF node.id = currentNodeId
    THEN (IF node.status = "start" THEN "start" ELSE "current")
    ELSE IF node.id \in visitedNodes
         THEN (IF node.status = "end" THEN "end" ELSE "visited")
         ELSE node.status

\* mutant: a tie relaxes too
ImprovesOrTies(newDistance, existingDistance) == ~Less(existingDistance, newDistance)
\* mutant: a distance is set on first discovery only
ImprovesOnlyUnset(newDistance, existingDistance) == existingDistance = Infinity
\* the test of dijkstra.ts line 102
Improves(newDistance, existingDistance) == Less(newDistance, existingDistance)

\* the neighbors.forEach of lines 96-106, on the pair (distances, previous)
RECURSIVE Relax(_, _, _, _, _, _)
Relax(distances, previous, neighbors, i, currentNodeId, ctx) ==
    IF i > Len(neighbors) THEN [distances |-> distances, previous |-> previous]
    ELSE LET neighborId == neighbors[i].node
             weight == neighbors[i].weight
             newDistance == Plus(ctx.currentDistance, weight)
             existingDistance == GetNumberOr(distances, neighborId, Infinity)
         IN IF neighborId \in ctx.visitedNodes
            THEN Relax(distances, previous, neighbors, i + 1, currentNodeId, ctx)
            ELSE IF Improves(newDistance, existingDistance)
                 THEN Relax(MapSet(distances, neighborId, newDistance),
                            MapSet(previous, neighborId, currentNodeId),
                            neighbors, i + 1, currentNodeId, ctx)
                 ELSE Relax(distances, previous, neighbors, i + 1, currentNodeId, ctx)

\* mutant: the comparison of the selection is reversed
SmallerReversed(distance, smallestDistance) == Less(smallestDistance, distance)
\* the test of dijkstra.ts line 114
Smaller(distance, smallestDistance) == Less(distance, smallestDistance)

\* the unvisitedNodes.forEach of lines 112-118
RECURSIVE SelectNext(_, _, _, _, _)
SelectNext(unvisitedNodes, distances, i, smallestDistance, nextNode) ==
    IF i > Len(unvisitedNodes)
    THEN [smallestDistance |-> smallestDistance, nextNode |-> nextNode]
    ELSE LET nodeId == unvisitedNodes[i]
             distance == GetNumberOr(distances, nodeId, Infinity)
         IN IF Smaller(distance, smallestDistance)
            THEN SelectNext(unvisitedNodes, distances, i + 1, distance, nodeId)
            ELSE SelectNext(unvisitedNodes, distances, i + 1, smallestDistance, nextNode)

\* the clone of dijkstra.ts lines 55-67, by content
CloneStep(prevStep) ==
    [distances |-> prevStep.distances,
     previous |-> prevStep.previous,
     currentNode |-> prevStep.currentNode,
     visitedNodes |-> prevStep.visitedNodes,
     unvisitedNodes |-> prevStep.unvisitedNodes,
     graph |-> [nodes |-> prevStep.graph.nodes, edges |-> prevStep.graph.edges],
     isDone |-> prevStep.isDone,
     shortestPath |-> prevStep.shortestPath]

\* mutant: the terminal guard is missing
IsTerminalNever(step) == FALSE
\* the guard of dijkstra.ts line 70
IsTerminal(step) == step.isDone \/ step.currentNode = NullId

dijkstraNextStep(prevStep) ==
    IF IsTerminal(CloneStep(prevStep))
    THEN CloneStep(prevStep)
    ELSE LET cloned == CloneStep(prevStep)
             adjacencyList == createAdjacencyList(prevStep.graph)
             currentNodeId == cloned.currentNode
             visitedNodes == SetAdd(cloned.visitedNodes, currentNodeId)
             unvisitedNodes == SetDelete(cloned.unvisitedNodes, currentNodeId)
             nodes == [i \in 1..Len(cloned.graph.nodes) |->
                         [cloned.graph.nodes[i] EXCEPT
                            !.status = VisitStatus(cloned.graph.nodes[i],
                                                   currentNodeId, visitedNodes)]]
             neighbors == IF MapHas(adjacencyList, currentNodeId)
                          THEN MapGet(adjacencyList, currentNodeId) ELSE <<>>
             currentDistance == GetNumberOr(cloned.distances, currentNodeId, 0)
             relaxed == Relax(cloned.distances, cloned.previous, neighbors, 1,
                              currentNodeId,
                              [currentDistance |-> currentDistance,
                               visitedNodes |-> visitedNodes])
             sel == SelectNext(unvisitedNodes, relaxed.distances, 1, Infinity, NullId)
             finished == sel.nextNode = NullId \/ sel.smallestDistance = Infinity
         IN [distances |-> relaxed.distances,
             previous |-> relaxed.previous,
             currentNode |-> IF finished THEN NullId ELSE sel.nextNode,
             visitedNodes |-> visitedNodes,
             unvisitedNodes |-> unvisitedNodes,
             graph |-> [nodes |-> nodes, edges |-> cloned.graph.edges],
             isDone |-> IF finished THEN TRUE ELSE cloned.isDone,
             shortestPath |-> cloned.shortestPath]

\* the guard of dijkstra.ts line 139
NoPathTo(endNodeId, previous) ==
    \/ ~MapHas(previous, endNodeId)
    \/ (MapGet(previous, endNodeId) = NullId /\ endNodeId # MapKeys(previous)[1])

\* the while loop of lines 144-147
RECURSIVE Backtrack(_, _, _)
Backtrack(current, previous, path) ==
    IF current = NullId THEN path
    ELSE Backtrack(GetIdOrNull(previous, current), previous, <<current>> \o path)

\* mutant: the backtracking appends instead of prepending
RECURSIVE BacktrackPush(_, _, _)
BacktrackPush(current, previous, path) ==
    IF current = NullId THEN path
    ELSE BacktrackPush(GetIdOrNull(previous, current), previous, Append(path, current))
constructPathPush(endNodeId, previous) ==
    IF NoPathTo(endNodeId, previous) THEN NullPath
    ELSE SomePath(BacktrackPush(endNodeId, previous, <<>>))

constructPath(endNodeId, previous) ==
    IF NoPathTo(endNodeId, previous) THEN NullPath
    ELSE SomePath(Backtrack(endNodeId, previous, <<>>))

PathIncludes(path, id) == \E i \in 1..Len(path) : path[i] = id

\* mutant: an edge counts only in the direction the path walks it
isPathEdgeForward(edge, path) ==
    \E index \in 1..Len(path) :
        /\ index # Len(path)
        /\ edge.source = path[index] /\ edge.target = path[index + 1]
\* the path.some of dijkstra.ts lines 174-179
isPathEdge(edge, path) ==
    \E index \in 1..Len(path) :
        /\ index # Len(path)
        /\ \/ (edge.source = path[index] /\ edge.target = path[index + 1])
           \/ (edge.source = path[index + 1] /\ edge.target = path[index])

\* mutant: only the empty path is left alone
TooShortOnlyEmpty(path) == Len(path) < 1
\* the guard of dijkstra.ts line 156
TooShort(path) == Len(path) < 2

visualizeShortestPath(graph, path) ==
    IF TooShort(path) THEN graph
    ELSE [nodes |-> [i \in 1..Len(graph.nodes) |->
                       [graph.nodes[i] EXCEPT !.status =
                          IF graph.nodes[i].status = "start" \/ graph.nodes[i].status = "end"
                          THEN graph.nodes[i].status
                          ELSE IF PathIncludes(path, graph.nodes[i].id) THEN "path"
                               ELSE graph.nodes[i].status]],
          edges |-> [i \in 1..Len(graph.edges) |->
                       [graph.edges[i] EXCEPT !.status =
                          IF isPathEdge(graph.edges[i], path) THEN "path"
                          ELSE graph.edges[i].status]]]

\* the expression of dijkstra.ts line 219
ShortestDistanceOf(distances, endNodeId) ==
    IF MapHas(distances, endNodeId)
    THEN OrElse(MapGet(distances, endNodeId), NullNumber)
    ELSE NullNumber

\* ------------------------------------------------------- objects and aliasing
\* The objects the code mutates in place (a step object, its two Maps, its two
\* Sets and its graph object) live in a heap, a sequence indexed by address; a
\* step object holds the addresses of the other five.  Arrays and node and edge
\* objects are never written after creation and stay values.
StepObject(step, a) ==
    [distances |-> a.distances, previous |-> a.previous,
     currentNode |-> step.currentNode,
     visitedNodes |-> a.visitedNodes, unvisitedNodes |-> a.unvisitedNodes,
     graph |-> a.graph, isDone |-> step.isDone, shortestPath |-> step.shortestPath]

\* the contents reachable from the step object at address ref
Deref(h, ref) ==
    [distances |-> h[h[ref].distances],
     previous |-> h[h[ref].previous],
     currentNode |-> h[ref].currentNode,
     visitedNodes |-> h[h[ref].visitedNodes],
     unvisitedNodes |-> h[h[ref].unvisitedNodes],
     graph |-> h[h[ref].graph],
     isDone |-> h[ref].isDone,
     shortestPath |-> h[ref].shortestPath]

\* a step whose Maps, Sets and graph object are all newly allocated
AllocStep(h, step) ==
    LET n == Len(h)
    IN [heap |-> h \o << step.distances, step.previous, step.visitedNodes,
                         step.unvisitedNodes, step.graph,
                         StepObject(step, [distances |-> n + 1, previous |-> n + 2,
                                           visitedNodes |-> n + 3,
                                           unvisitedNodes |-> n + 4,
                                           graph |-> n + 5]) >>,
        ref |-> n + 6]

\* initializeDijkstra: every part of the returned step is a new object
heapInitialize(h, g, startId) == AllocStep(h, initializeDijkstra(g, startId))

\* mutant: the clone keeps the previous step's Maps instead of copying them
heapCloneSharedMaps(h, prevRef) ==
    LET n == Len(h)
        step == CloneStep(Deref(h, prevRef))
    IN [heap |-> h \o << step.visitedNodes, step.unvisitedNodes, step.graph,
                         StepObject(step, [distances |-> h[prevRef].distances,
                                           previous |-> h[prevRef].previous,
                                           visitedNodes |-> n + 1,
                                           unvisitedNodes |-> n + 2,
                                           graph |-> n + 3]) >>,
        ref |-> n + 4]
\* the clone of dijkstra.ts lines 55-67: new Map, new Set and a new graph object
\* for each part of the previous step
heapClone(h, prevRef) == AllocStep(h, CloneStep(Deref(h, prevRef)))

\* dijkstraNextStep on objects: the clone is made, and unless the step is
\* terminal the clone's objects are written in place (Set.add, Set.delete,
\* graph.nodes =, Map.set, isDone =, currentNode =)
heapNextStep(h, prevRef) ==
    LET c == heapClone(h, prevRef)
        obj == c.heap[c.ref]
        next == dijkstraNextStep(Deref(c.heap, c.ref))
    IN IF IsTerminal(obj) THEN c
       ELSE [heap |-> [c.heap EXCEPT
                         ![obj.distances] = next.distances,
                         ![obj.previous] = next.previous,
                         ![obj.visitedNodes] = next.visitedNodes,
                         ![obj.unvisitedNodes] = next.unvisitedNodes,
                         ![obj.graph] = next.graph,
                         ![c.ref] = [obj EXCEPT !.currentNode = next.currentNode,
                                                !.isDone = next.isDone]],
             ref |-> c.ref]

\* steps.push({...currentStep}): a new step object holding the same addresses
heapShallowCopy(h, ref) == [heap |-> Append(h, h[ref]), ref |-> Len(h) + 1]

\* lines 210-212: visualizeShortestPath returns its argument for a short path
\* and a new graph object otherwise; the last element of steps is then written
heapOverlay(h, lastRef, currentRef, path) ==
    LET shown == h[h[currentRef].graph]
    IN IF TooShort(path)
       THEN [h EXCEPT ![lastRef] = [@ EXCEPT !.graph = h[currentRef].graph,
                                             !.shortestPath = SomePath(path)]]
       ELSE [Append(h, visualizeShortestPath(shown, path))
                EXCEPT ![lastRef] = [@ EXCEPT !.graph = Len(h) + 1,
                                              !.shortestPath = SomePath(path)]]

\* ------------------------------------------------------- runDijkstraAlgorithm
\* currentStep, steps and result hold contents.  When objects is TRUE, heap,
\* currentRef and stepRefs hold the same run as objects: currentRef is the
\* object currentStep names and stepRefs[i] the object that is element i of
\* the steps array.
VARIABLES graph, startNodeId, endNodeId, pc, currentStep, steps, result,
          objects, heap, currentRef, stepRefs
\* the rest of the page state of Index.tsx (graph, startNodeId, endNodeId and
\* result above are its state too), the state of GraphCanvas, the two timers,
\* the last message given to toast.error, and the number of edits made
VARIABLES editorMode, selectingStartNode, selectingEndNode, isRunning,
          algorithmSteps, currentStepIndex, autoRunIntervalRef, autoRunSteps,
          selectedNode, pendingEdge, edgeWeight, popoverOpen, popoverTimer,
          toastError, edits
engineVars == <<pc, currentStep, steps, objects, heap, currentRef, stepRefs>>
uiVars ==
    <<editorMode, selectingStartNode, selectingEndNode, isRunning,
      algorithmSteps, currentStepIndex, autoRunIntervalRef, autoRunSteps,
      selectedNode, pendingEdge, edgeWeight, popoverOpen, popoverTimer,
      toastError, edits>>
vars == <<graph, startNodeId, endNodeId, pc, currentStep, steps, result,
          objects, heap, currentRef, stepRefs, uiVars>>

\* pendingEdge = null
NoPendingEdge == [source |-> NullId, target |-> NullId]
\* the page and the canvas as their useState initialisers leave them
\* (Index.tsx lines 23-34, GraphCanvas lines 202-205)
InitialUI ==
    /\ editorMode = "edit"
    /\ selectingStartNode = FALSE
    /\ selectingEndNode = FALSE
    /\ isRunning = FALSE
    /\ algorithmSteps = <<>>
    /\ currentStepIndex = 0
    /\ autoRunIntervalRef = FALSE
    /\ autoRunSteps = <<>>
    /\ selectedNode = NullId
    /\ pendingEdge = NoPendingEdge
    /\ edgeWeight = 1
    /\ popoverOpen = FALSE
    /\ popoverTimer = FALSE
    /\ toastError = "none"
    /\ edits = 0

\* value of a local before its declaration is executed
NoStep ==
    [distances |-> <<>>, previous |-> <<>>, currentNode |-> NullId,
     visitedNodes |-> {}, unvisitedNodes |-> <<>>,
     graph |-> [nodes |-> <<>>, edges |-> <<>>],
     isDone |-> FALSE, shortestPath |-> NullPath]
NoResult ==
    [success |-> FALSE, steps |-> <<>>, shortestPath |-> NullPath,
     shortestDistance |-> NullNumber]

\* input graphs: the demo graph, and every graph the editor can build on
\* four nodes over the node pairs of PairList (no self loop, at most one edge
\* per unordered pair, slider weights from MinWeight up)
MinWeight == 1
Weights == MinWeight..MaxWeight
SmallNodes ==
    << [id |-> "A", status |-> "default"], [id |-> "B", status |-> "default"],
       [id |-> "C", status |-> "default"], [id |-> "D", status |-> "default"] >>
PairList ==
    << [id |-> "A-B", source |-> "A", target |-> "B"],
       [id |-> "C-A", source |-> "C", target |-> "A"],
       [id |-> "A-D", source |-> "A", target |-> "D"],
       [id |-> "B-C", source |-> "B", target |-> "C"],
       [id |-> "D-C", source |-> "D", target |-> "C"] >>
EdgeChoice ==
    {[present |-> FALSE, weight |-> MinWeight]}
        \cup {[present |-> TRUE, weight |-> w] : w \in Weights}
RECURSIVE ChosenEdges(_, _)
ChosenEdges(choice, i) ==
    IF i > Len(PairList) THEN <<>>
    ELSE (IF choice[i].present
          THEN << [id |-> PairList[i].id, source |-> PairList[i].source,
                   target |-> PairList[i].target, weight |-> choice[i].weight,
                   status |-> "default"] >>
          ELSE <<>>) \o ChosenEdges(choice, i + 1)
SmallGraph(choice) == [nodes |-> SmallNodes, edges |-> ChosenEdges(choice, 1)]
InputGraphs ==
    {generateDemoGraph}
        \cup {SmallGraph(choice) : choice \in [1..Len(PairList) -> EdgeChoice]}
NodeIds(g) == {g.nodes[i].id : i \in 1..Len(g.nodes)}

Init ==
    /\ graph \in InputGraphs
    /\ startNodeId \in NodeIds(graph)
    /\ endNodeId \in NodeIds(graph)
    /\ pc = "start"
    /\ currentStep = NoStep
    /\ steps = <<>>
    /\ result = NoResult
    /\ objects = FALSE
    /\ heap = <<>>
    /\ currentRef = 0
    /\ stepRefs = <<>>
    /\ InitialUI

\* dijkstra.ts lines 196-197
Initialize ==
    /\ pc = "start"
    /\ currentStep' = initializeDijkstra(graph, startNodeId)
    /\ steps' = <<currentStep'>>
    /\ IF objects
       THEN LET made == heapInitialize(heap, graph, startNodeId)
            IN /\ heap' = made.heap
               /\ currentRef' = made.ref
               /\ stepRefs' = <<made.ref>>
       ELSE UNCHANGED <<heap, currentRef, stepRefs>>
    /\ pc' = "loop"
    /\ UNCHANGED <<graph, startNodeId, endNodeId, result, objects, uiVars>>

\* the while condition of line 200
LoopCondition == ~currentStep.isDone

\* one iteration of the while loop, lines 200-203
LoopStep ==
    /\ pc = "loop"
    /\ LoopCondition
    /\ currentStep' = dijkstraNextStep(currentStep)
    /\ steps' = Append(steps, currentStep')
    /\ IF objects
       THEN LET made == heapNextStep(heap, currentRef)
                pushed == heapShallowCopy(made.heap, made.ref)
            IN /\ heap' = pushed.heap
               /\ currentRef' = made.ref
               /\ stepRefs' = Append(stepRefs, pushed.ref)
       ELSE UNCHANGED <<heap, currentRef, stepRefs>>
    /\ UNCHANGED <<graph, startNodeId, endNodeId, pc, result, objects, uiVars>>

\* lines 205-220: the loop has ended; path, overlay on the last step, result
Finish ==
    /\ pc = "loop"
    /\ ~LoopCondition
    /\ LET shortestPath == constructPath(endNodeId, currentStep.previous)
           overlay == ~shortestPath.isNull /\ Len(shortestPath.path) > 0
           finalSteps ==
               IF overlay
               THEN [steps EXCEPT ![Len(steps)] =
                       [@ EXCEPT !.graph = visualizeShortestPath(currentStep.graph,
                                                                shortestPath.path),
                                 !.shortestPath = shortestPath]]
               ELSE steps
       IN /\ steps' = finalSteps
          /\ result' = [success |-> ~shortestPath.isNull,
                        steps |-> finalSteps,
                        shortestPath |-> shortestPath,
                        shortestDistance |->
                            ShortestDistanceOf(currentStep.distances, endNodeId)]
          /\ heap' = IF objects /\ overlay
                     THEN heapOverlay(heap, stepRefs[Len(stepRefs)], currentRef,
                                      shortestPath.path)
                     ELSE heap
    /\ pc' = "done"
    /\ UNCHANGED <<graph, startNodeId, endNodeId, currentStep, objects,
                   currentRef, stepRefs, uiVars>>

Next == Initialize \/ LoopStep \/ Finish

Spec == Init /\ [][Next]_vars

\* the same run with its objects tracked, on the demo graph and on the
\* four-node graphs whose edges weigh MinWeight or MaxWeight
ObjectGraphs ==
    {generateDemoGraph}
        \cup {SmallGraph(choice) :
                 choice \in [1..Len(PairList) ->
                               {c \in EdgeChoice : c.weight \in {MinWeight, MaxWeight}}]}
InitObjects ==
    /\ graph \in ObjectGraphs
    /\ startNodeId \in NodeIds(graph)
    /\ endNodeId \in NodeIds(graph)
    /\ pc = "start"
    /\ currentStep = NoStep
    /\ steps = <<>>
    /\ result = NoResult
    /\ objects = TRUE
    /\ heap = <<>>
    /\ currentRef = 0
    /\ stepRefs = <<>>
    /\ InitialUI
SpecObjects == InitObjects /\ [][Next]_vars

\* the same run on graphs whose nodes come in with any display status (a graph
\* shown after an earlier run keeps such statuses)
NodeStatuses == {"default", "visited", "current", "start", "end", "path"}
StatusGraph(st) ==
    [nodes |-> << [id |-> "A", status |-> st[1]],
                  [id |-> "B", status |-> st[2]],
                  [id |-> "C", status |-> st[3]] >>,
     edges |-> << [id |-> "A-B", source |-> "A", target |-> "B",
                   weight |-> MinWeight, status |-> "default"],
                  [id |-> "C-B", source |-> "C", target |-> "B",
                   weight |-> MaxWeight, status |-> "default"] >>]
InitStatus ==
    /\ graph \in {StatusGraph(st) : st \in [1..3 -> NodeStatuses]}
    /\ startNodeId \in NodeIds(graph)
    /\ endNodeId \in NodeIds(graph)
    /\ pc = "start"
    /\ currentStep = NoStep
    /\ steps = <<>>
    /\ result = NoResult
    /\ objects = FALSE
    /\ heap = <<>>
    /\ currentRef = 0
    /\ stepRefs = <<>>
    /\ InitialUI
SpecStatus == InitStatus /\ [][Next]_vars

\* the same run on the four-node graphs whose edges weigh 0 or MinWeight
\* (the engine takes any Graph value; non-negative weights include 0)
ZeroChoice ==
    {[present |-> FALSE, weight |-> MinWeight]}
        \cup {[present |-> TRUE, weight |-> w] : w \in {0, MinWeight}}
ZeroGraphs == {SmallGraph(choice) : choice \in [1..Len(PairList) -> ZeroChoice]}
InitZero ==
    /\ graph \in ZeroGraphs
    /\ startNodeId \in NodeIds(graph)
    /\ endNodeId \in NodeIds(graph)
    /\ pc = "start"
    /\ currentStep = NoStep
    /\ steps = <<>>
    /\ result = NoResult
    /\ objects = FALSE
    /\ heap = <<>>
    /\ currentRef = 0
    /\ stepRefs = <<>>
    /\ InitialUI
SpecZero == InitZero /\ [][Next]_vars

\* the same run with its objects tracked on graphs whose nodes come in with any
\* display status
InitShown ==
    /\ graph \in {StatusGraph(st) : st \in [1..3 -> NodeStatuses]}
    /\ startNodeId \in NodeIds(graph)
    /\ endNodeId \in NodeIds(graph)
    /\ pc = "start"
    /\ currentStep = NoStep
    /\ steps = <<>>
    /\ result = NoResult
    /\ objects = TRUE
    /\ heap = <<>>
    /\ currentRef = 0
    /\ stepRefs = <<>>
    /\ InitialUI
SpecShown == InitShown /\ [][Next]_vars

\* ------------------------------------------------------ the page (Index.tsx)
\* graphUtils.ts lines 40-46
edgeExists(edges, sourceId, targetId) ==
    \E i \in 1..Len(edges) :
        \/ (edges[i].source = sourceId /\ edges[i].target = targetId)
        \/ (edges[i].source = targetId /\ edges[i].target = sourceId)

\* graphUtils.ts lines 70-81; the id is the random string of generateId, the
\* position and the label are not kept
createNode(id) == [id |-> id, status |-> "default"]

\* graphUtils.ts lines 92-103
resetGraphStatus(g) ==
    [nodes |-> [i \in 1..Len(g.nodes) |->
                  [g.nodes[i] EXCEPT !.status =
                     IF g.nodes[i].status = "start" \/ g.nodes[i].status = "end"
                     THEN g.nodes[i].status ELSE "default"]],
     edges |-> [i \in 1..Len(g.edges) |-> [g.edges[i] EXCEPT !.status = "default"]]]

\* the while loop of dijkstra.ts lines 200-203, run to its end; collected is
\* the steps array, whose last element is currentStep
RECURSIVE RunLoop(_)
RunLoop(collected) ==
    CHOOSE out \in {IF c[Len(c)].isDone THEN c
                    ELSE RunLoop(Append(c, dijkstraNextStep(c[Len(c)]))) :
                    c \in {collected}} : TRUE

\* dijkstra.ts lines 205-220 on the collected steps
RunResult(collected, endId) ==
    LET last == collected[Len(collected)]
        shortestPath == constructPath(endId, last.previous)
        finalSteps ==
            IF ~shortestPath.isNull /\ Len(shortestPath.path) > 0
            THEN [collected EXCEPT ![Len(collected)] =
                    [@ EXCEPT !.graph = visualizeShortestPath(last.graph,
                                                             shortestPath.path),
                              !.shortestPath = shortestPath]]
            ELSE collected
    IN [success |-> ~shortestPath.isNull,
        steps |-> finalSteps,
        shortestPath |-> shortestPath,
        shortestDistance |-> ShortestDistanceOf(last.distances, endId)]

\* dijkstra.ts lines 190-221 as one call
runDijkstraAlgorithm(g, startId, endId) ==
    CHOOSE out \in {RunResult(collected, endId) :
                      collected \in {RunLoop(<<initializeDijkstra(g, startId)>>)}} :
        TRUE

\* ids generateId can return for nodes made in the editor
NewIds == {"n1"}
\* the nodes and edges the user points at
PickedNodes == {"A", "C"}
PickedEdges == {"A-B", "A-C"}
\* edits of the graph (nodes and edges made or removed) in one session
MaxEdits == 2
\* weights the popover can end with
EditorWeights == {MinWeight, MaxWeight}

\* mutant: only unset nodes are refused
StartRefusalUnsetOnly(startId, endId) ==
    IF startId = NullId \/ endId = NullId
    THEN "Please select both start and end nodes"
    ELSE "none"
\* Index.tsx lines 71-79: the error startAlgorithm shows instead of running
StartRefusal(startId, endId) ==
    IF startId = NullId \/ endId = NullId
    THEN "Please select both start and end nodes"
    ELSE IF startId = endId THEN "Start and end nodes must be different"
    ELSE "none"

\* Index.tsx lines 43-53; nodeId is NullId when the canvas passes null
handleNodeSelection(nodeId) ==
    IF selectingStartNode
    THEN /\ startNodeId' = nodeId
         /\ selectingStartNode' = FALSE
         /\ UNCHANGED toastError
         /\ UNCHANGED <<endNodeId, selectingEndNode>>
    ELSE IF selectingEndNode
         THEN /\ endNodeId' = nodeId
              /\ selectingEndNode' = FALSE
              /\ UNCHANGED toastError
              /\ UNCHANGED <<startNodeId, selectingStartNode>>
         ELSE UNCHANGED <<startNodeId, endNodeId, selectingStartNode,
                          selectingEndNode, toastError>>

\* Index.tsx lines 56-60; the button is disabled when running or in view mode
handleSelectStartNode ==
    /\ ~isRunning /\ editorMode = "edit"
    /\ selectingStartNode' = TRUE
    /\ selectingEndNode' = FALSE
    /\ UNCHANGED toastError
    /\ UNCHANGED <<graph, startNodeId, endNodeId, result, engineVars, editorMode,
                   isRunning, algorithmSteps, currentStepIndex, autoRunIntervalRef,
                   autoRunSteps, selectedNode, pendingEdge, edgeWeight, popoverOpen,
                   popoverTimer, edits>>

\* Index.tsx lines 63-67
handleSelectEndNode ==
    /\ ~isRunning /\ editorMode = "edit"
    /\ selectingEndNode' = TRUE
    /\ selectingStartNode' = FALSE
    /\ UNCHANGED toastError
    /\ UNCHANGED <<graph, startNodeId, endNodeId, result, engineVars, editorMode,
                   isRunning, algorithmSteps, currentStepIndex, autoRunIntervalRef,
                   autoRunSteps, selectedNode, pendingEdge, edgeWeight, popoverOpen,
                   popoverTimer, edits>>

\* ControlPanel.tsx lines 107-118: the Edit button is disabled while running
setEditorMode ==
    /\ \E mode \in {"edit", "view"} :
          /\ mode = "edit" => ~isRunning
          /\ editorMode' = mode
    /\ UNCHANGED <<graph, startNodeId, endNodeId, result, engineVars,
                   selectingStartNode, selectingEndNode, isRunning, algorithmSteps,
                   currentStepIndex, autoRunIntervalRef, autoRunSteps, selectedNode,
                   pendingEdge, edgeWeight, popoverOpen, popoverTimer, toastError, edits>>

\* Index.tsx lines 70-97, the handler on whatever start and end are set
startAlgorithm ==
    /\ IF StartRefusal(startNodeId, endNodeId) # "none"
       THEN /\ toastError' = StartRefusal(startNodeId, endNodeId)
            /\ UNCHANGED <<graph, result, algorithmSteps, currentStepIndex,
                           isRunning, editorMode>>
       ELSE /\ result' = runDijkstraAlgorithm(resetGraphStatus(graph),
                                              startNodeId, endNodeId)
            /\ algorithmSteps' = result'.steps
            /\ currentStepIndex' = 0
            /\ isRunning' = TRUE
            /\ editorMode' = "view"
            /\ graph' = IF Len(result'.steps) > 0 THEN result'.steps[1].graph
                        ELSE resetGraphStatus(graph)
            /\ UNCHANGED toastError
    /\ UNCHANGED <<startNodeId, endNodeId, engineVars, selectingStartNode,
                   selectingEndNode, autoRunIntervalRef, autoRunSteps, selectedNode,
                   pendingEdge, edgeWeight, popoverOpen, popoverTimer, edits>>

\* Index.tsx line 223
canRun == startNodeId # NullId /\ endNodeId # NullId

\* ControlPanel.tsx lines 127-131: the Start button is shown when not running
\* and is disabled unless canRun
onStartAlgorithm ==
    /\ ~isRunning
    /\ canRun
    /\ startAlgorithm

\* mutant: the reset forgets the interval
ClearedIntervalKept(ref) == ref
\* Index.tsx lines 101-104: the interval after clearInterval
ClearedInterval(ref) == FALSE

\* Index.tsx lines 100-114, on the page state it writes
resetAlgorithmWrites ==
    /\ autoRunIntervalRef' = ClearedInterval(autoRunIntervalRef)
    /\ autoRunSteps' = IF ClearedInterval(autoRunIntervalRef) THEN autoRunSteps ELSE <<>>
    /\ isRunning' = FALSE
    /\ algorithmSteps' = <<>>
    /\ currentStepIndex' = 0
    /\ result' = NoResult

\* the Reset button, disabled when nothing is running and no node is chosen
resetAlgorithm ==
    /\ isRunning \/ startNodeId # NullId \/ endNodeId # NullId
    /\ resetAlgorithmWrites
    /\ graph' = resetGraphStatus(graph)
    /\ UNCHANGED <<startNodeId, endNodeId, engineVars, editorMode,
                   selectingStartNode, selectingEndNode, selectedNode, pendingEdge,
                   edgeWeight, popoverOpen, popoverTimer, toastError, edits>>

\* Index.tsx lines 117-127; the button is shown while running and disabled at
\* the last step
goToNextStep ==
    /\ isRunning
    /\ currentStepIndex + 1 < Len(algorithmSteps)
    /\ IF currentStepIndex < Len(algorithmSteps) - 1
       THEN /\ currentStepIndex' = currentStepIndex + 1
            /\ graph' = algorithmSteps[currentStepIndex + 2].graph
       ELSE UNCHANGED <<currentStepIndex, graph>>
    /\ UNCHANGED toastError
    /\ UNCHANGED <<startNodeId, endNodeId, result, engineVars, editorMode,
                   selectingStartNode, selectingEndNode, isRunning, algorithmSteps,
                   autoRunIntervalRef, autoRunSteps, selectedNode, pendingEdge,
                   edgeWeight, popoverOpen, popoverTimer, edits>>

\* Index.tsx lines 130-160, the click: pause a running interval, or start one
\* whose callback keeps the algorithmSteps of this render
autoRunAlgorithm ==
    /\ isRunning
    /\ currentStepIndex + 1 < Len(algorithmSteps)
    /\ IF autoRunIntervalRef
       THEN /\ autoRunIntervalRef' = FALSE
            /\ autoRunSteps' = <<>>
            /\ UNCHANGED toastError
       ELSE /\ autoRunIntervalRef' = TRUE
            /\ autoRunSteps' = algorithmSteps
            /\ UNCHANGED toastError
    /\ UNCHANGED <<graph, startNodeId, endNodeId, result, engineVars, editorMode,
                   selectingStartNode, selectingEndNode, isRunning, algorithmSteps,
                   currentStepIndex, selectedNode, pendingEdge, edgeWeight,
                   popoverOpen, popoverTimer, edits>>

\* mutant: the tick never clears the interval at the last step
TickClearsNever(prevIndex, nextIndex, length) == FALSE
\* Index.tsx lines 146-148 and 155-156: the tick clears the interval when it
\* reaches the last step or finds nothing left to show
TickClears(prevIndex, nextIndex, length) ==
    IF prevIndex < length - 1 THEN nextIndex = length - 1 ELSE TRUE

\* Index.tsx lines 140-159: one firing of the interval
autoRunTick ==
    /\ autoRunIntervalRef
    /\ LET prevIndex == currentStepIndex
           nextIndex == IF prevIndex < Len(autoRunSteps) - 1
                        THEN prevIndex + 1 ELSE prevIndex
           cleared == TickClears(prevIndex, nextIndex, Len(autoRunSteps))
       IN /\ currentStepIndex' = nextIndex
          /\ graph' = IF prevIndex < Len(autoRunSteps) - 1
                      THEN autoRunSteps[nextIndex + 1].graph ELSE graph
          /\ autoRunIntervalRef' = ~cleared
          /\ autoRunSteps' = IF cleared THEN <<>> ELSE autoRunSteps
          /\ UNCHANGED toastError
    /\ UNCHANGED <<startNodeId, endNodeId, result, engineVars, editorMode,
                   selectingStartNode, selectingEndNode, isRunning, algorithmSteps,
                   selectedNode, pendingEdge, edgeWeight, popoverOpen, popoverTimer,
                   edits>>

\* Index.tsx lines 171-178; the button is disabled while running
handleLoadDemoGraph ==
    /\ ~isRunning
    /\ resetAlgorithmWrites
    /\ graph' = generateDemoGraph
    /\ startNodeId' = "A"
    /\ endNodeId' = "E"
    /\ UNCHANGED toastError
    /\ UNCHANGED <<engineVars, editorMode, selectingStartNode, selectingEndNode,
                   selectedNode, pendingEdge, edgeWeight, popoverOpen, popoverTimer,
                   edits>>

\* Index.tsx lines 180-186
handleClearGraph ==
    /\ ~isRunning
    /\ resetAlgorithmWrites
    /\ graph' = [nodes |-> <<>>, edges |-> <<>>]
    /\ startNodeId' = NullId
    /\ endNodeId' = NullId
    /\ UNCHANGED toastError
    /\ UNCHANGED <<engineVars, editorMode, selectingStartNode, selectingEndNode,
                   selectedNode, pendingEdge, edgeWeight, popoverOpen, popoverTimer,
                   edits>>

\* ------------------------------------------------- the editor (GraphCanvas)
\* what the handlers of the page keep when only the canvas acts
pageKept ==
    <<result, engineVars, editorMode, isRunning, algorithmSteps, currentStepIndex,
      autoRunIntervalRef, autoRunSteps>>

\* mutant: a click on a node always reports the node to the page
ClickStartsEdgeNever(selected, clickedId) == FALSE
\* GraphCanvas line 235: the click is the second end of an edge
ClickStartsEdge(selected, clickedId) == selected # NullId /\ selected # clickedId

\* GraphCanvas lines 221-269 when findNodeAt resolves the click to the node
\* clickedId
handleCanvasClickAt(clickedId) ==
        IF pendingEdge # NoPendingEdge \/ editorMode # "edit" \/ isRunning
        THEN UNCHANGED vars
        ELSE /\ IF ClickStartsEdge(selectedNode, clickedId)
                THEN IF ~edgeExists(graph.edges, selectedNode, clickedId)
                     THEN /\ pendingEdge' = [source |-> selectedNode,
                                             target |-> clickedId]
                          /\ edgeWeight' \in EditorWeights
                          /\ popoverTimer' = TRUE
                          /\ UNCHANGED <<selectedNode, toastError, startNodeId, endNodeId,
                                         selectingStartNode, selectingEndNode>>
                     ELSE /\ UNCHANGED toastError
                          /\ selectedNode' = NullId
                          /\ UNCHANGED <<pendingEdge, edgeWeight, popoverTimer,
                                         startNodeId, endNodeId, selectingStartNode,
                                         selectingEndNode>>
                ELSE /\ IF selectedNode = clickedId
                        THEN /\ selectedNode' = NullId
                             /\ handleNodeSelection(NullId)
                        ELSE /\ selectedNode' = clickedId
                             /\ handleNodeSelection(clickedId)
                     /\ UNCHANGED <<pendingEdge, edgeWeight, popoverTimer>>
             /\ UNCHANGED <<graph, pageKept, popoverOpen, edits>>

\* GraphCanvas line 231: a click that findNodeAt resolves to a node
handleCanvasClickOnNode ==
    \E clickedId \in NodeIds(graph) \cap PickedNodes : handleCanvasClickAt(clickedId)

\* GraphCanvas lines 270-279: a click on empty canvas makes a node
handleCanvasClickOnCanvas ==
    IF pendingEdge # NoPendingEdge \/ editorMode # "edit" \/ isRunning
    THEN UNCHANGED vars
    ELSE /\ edits < MaxEdits
         /\ \E id \in NewIds \ NodeIds(graph) :
               graph' = [nodes |-> Append(graph.nodes, createNode(id)),
                         edges |-> graph.edges]
         /\ selectedNode' = NullId
         /\ edits' = edits + 1
         /\ UNCHANGED <<pageKept, startNodeId, endNodeId, selectingStartNode,
                        selectingEndNode, pendingEdge, edgeWeight, popoverOpen,
                        popoverTimer, toastError>>

\* GraphCanvas lines 208-217: the timer the effect starts when pendingEdge is set
popoverTimerFires ==
    /\ popoverTimer
    /\ popoverOpen' = TRUE
    /\ popoverTimer' = FALSE
    /\ UNCHANGED <<graph, pageKept, startNodeId, endNodeId, selectingStartNode,
                   selectingEndNode, selectedNode, pendingEdge, edgeWeight, toastError,
                   edits>>

\* GraphCanvas line 471: the Popover closes itself (a press outside, Escape)
\* and reports it through onOpenChange, which is setPopoverOpen; the component
\* is components/ui/popover, whose dismissal is taken from the contract of
\* the onOpenChange prop
popoverOpenChange ==
    /\ popoverOpen
    /\ popoverOpen' = FALSE
    /\ UNCHANGED <<graph, pageKept, startNodeId, endNodeId, selectingStartNode,
                   selectingEndNode, selectedNode, pendingEdge, edgeWeight,
                   popoverTimer, toastError, edits>>

\* GraphCanvas lines 481-487: the slider of the open popover
sliderChange ==
    /\ popoverOpen
    /\ edgeWeight' \in EditorWeights
    /\ UNCHANGED <<graph, pageKept, startNodeId, endNodeId, selectingStartNode,
                   selectingEndNode, selectedNode, pendingEdge, popoverOpen,
                   popoverTimer, toastError, edits>>

\* GraphCanvas lines 283-313: the Confirm button of the open popover
confirmEdgeCreation ==
    /\ popoverOpen
    /\ IF pendingEdge = NoPendingEdge
          \/ edgeExists(graph.edges, pendingEdge.source, pendingEdge.target)
       THEN /\ UNCHANGED toastError
            /\ UNCHANGED <<graph, popoverOpen, pendingEdge, selectedNode,
                           popoverTimer, edits>>
       ELSE /\ edits < MaxEdits
            /\ popoverOpen' = FALSE
            /\ graph' = [nodes |-> graph.nodes,
                         edges |-> Append(graph.edges,
                                     [id |-> pendingEdge.source \o "-"
                                               \o pendingEdge.target,
                                      source |-> pendingEdge.source,
                                      target |-> pendingEdge.target,
                                      weight |-> edgeWeight,
                                      status |-> "default"])]
            /\ pendingEdge' = NoPendingEdge
            /\ popoverTimer' = FALSE
            /\ selectedNode' = NullId
            /\ UNCHANGED toastError
            /\ edits' = edits + 1
    /\ UNCHANGED <<pageKept, startNodeId, endNodeId, selectingStartNode,
                   selectingEndNode, edgeWeight>>

\* GraphCanvas lines 328-332: the Cancel button of the open popover
cancelEdgeCreation ==
    /\ popoverOpen
    /\ pendingEdge' = NoPendingEdge
    /\ popoverTimer' = FALSE
    /\ selectedNode' = NullId
    /\ popoverOpen' = FALSE
    /\ UNCHANGED <<graph, pageKept, startNodeId, endNodeId, selectingStartNode,
                   selectingEndNode, edgeWeight, toastError, edits>>

\* GraphCanvas lines 334-345: only the position changes, which is not kept
handleNodeDrag ==
    \E nodeId \in NodeIds(graph) \cap PickedNodes :
        IF editorMode # "edit" \/ isRunning
        THEN UNCHANGED vars
        ELSE /\ graph' = [nodes |-> [i \in 1..Len(graph.nodes) |-> graph.nodes[i]],
                          edges |-> graph.edges]
             /\ UNCHANGED <<pageKept, startNodeId, endNodeId, uiVars>>

\* mutant: the node goes and its edges stay
EdgesAfterNodeRemovalAll(edges, nodeId) == edges
\* GraphCanvas lines 353-355
EdgesAfterNodeRemoval(edges, nodeId) ==
    SelectSeq(edges, LAMBDA edge : edge.source # nodeId /\ edge.target # nodeId)

\* GraphCanvas lines 347-367: right click on a node
handleNodeContextMenu ==
    \E nodeId \in NodeIds(graph) \cap PickedNodes :
        IF editorMode # "edit" \/ isRunning
        THEN UNCHANGED vars
        ELSE /\ edits < MaxEdits
             /\ graph' = [nodes |-> SelectSeq(graph.nodes,
                                              LAMBDA node : node.id # nodeId),
                          edges |-> EdgesAfterNodeRemoval(graph.edges, nodeId)]
             /\ selectedNode' = IF selectedNode = nodeId THEN NullId ELSE selectedNode
             /\ UNCHANGED toastError
             /\ edits' = edits + 1
             /\ UNCHANGED <<pageKept, startNodeId, endNodeId, selectingStartNode,
                            selectingEndNode, pendingEdge, edgeWeight, popoverOpen,
                            popoverTimer>>

\* GraphCanvas lines 369-382: right click on an edge
handleEdgeContextMenu ==
    \E k \in {j \in 1..Len(graph.edges) : graph.edges[j].id \in PickedEdges} :
        IF editorMode # "edit" \/ isRunning
        THEN UNCHANGED vars
        ELSE /\ edits < MaxEdits
             /\ graph' = [nodes |-> graph.nodes,
                          edges |-> SelectSeq(graph.edges,
                                      LAMBDA edge : edge.id # graph.edges[k].id)]
             /\ UNCHANGED toastError
             /\ edits' = edits + 1
             /\ UNCHANGED <<pageKept, startNodeId, endNodeId, selectingStartNode,
                            selectingEndNode, selectedNode, pendingEdge, edgeWeight,
                            popoverOpen, popoverTimer>>

\* the page once mounted: the effect of Index.tsx lines 37-40 has loaded the
\* demo graph and nothing is chosen
InitUI ==
    /\ graph = generateDemoGraph
    /\ startNodeId = NullId
    /\ endNodeId = NullId
    /\ result = NoResult
    /\ pc = "start"
    /\ currentStep = NoStep
    /\ steps = <<>>
    /\ objects = FALSE
    /\ heap = <<>>
    /\ currentRef = 0
    /\ stepRefs = <<>>
    /\ InitialUI

NextUI ==
    \/ handleSelectStartNode
    \/ handleSelectEndNode
    \/ setEditorMode
    \/ onStartAlgorithm
    \/ resetAlgorithm
    \/ goToNextStep
    \/ autoRunAlgorithm
    \/ autoRunTick
    \/ handleLoadDemoGraph
    \/ handleClearGraph
    \/ handleCanvasClickOnNode
    \/ handleCanvasClickOnCanvas
    \/ popoverTimerFires
    \/ popoverOpenChange
    \/ sliderChange
    \/ confirmEdgeCreation
    \/ cancelEdgeCreation
    \/ handleNodeDrag
    \/ handleNodeContextMenu
    \/ handleEdgeContextMenu

SpecUI == InitUI /\ [][NextUI]_vars

\* the handler startAlgorithm on every choice of start and end of the demo
\* graph, the unset ones included
InitStart ==
    /\ graph = generateDemoGraph
    /\ startNodeId \in NodeIds(generateDemoGraph) \cup {NullId}
    /\ endNodeId \in NodeIds(generateDemoGraph) \cup {NullId}
    /\ result = NoResult
    /\ pc = "start"
    /\ currentStep = NoStep
    /\ steps = <<>>
    /\ objects = FALSE
    /\ heap = <<>>
    /\ currentRef = 0
    /\ stepRefs = <<>>
    /\ InitialUI

\* Index.tsx lines 70-97 called on a page that is not running
startAlgorithmCalled ==
    /\ ~isRunning
    /\ startAlgorithm

NextStart ==
    \/ startAlgorithmCalled
    \/ goToNextStep
    \/ resetAlgorithm

SpecStart == InitStart /\ [][NextStart]_vars

\* ------------------------------------------------ shortest-path oracle
\* (exhaustive enumeration of simple paths, independent of the engine)
Joins(edge, u, v) ==
    \/ (edge.source = u /\ edge.target = v)
    \/ (edge.source = v /\ edge.target = u)
Joined(g, u, v) == \E i \in 1..Len(g.edges) : Joins(g.edges[i], u, v)
MinOf(S) == CHOOSE x \in S : \A y \in S : x <= y
EdgeWeightBetween(g, u, v) ==
    MinOf({g.edges[i].weight : i \in {j \in 1..Len(g.edges) : Joins(g.edges[j], u, v)}})
OneLonger(g, paths) ==
    UNION {{Append(p, v) : v \in {x \in NodeIds(g) :
                                    /\ ~PathIncludes(p, x)
                                    /\ Joined(g, p[Len(p)], x)}} : p \in paths}
RECURSIVE PathsUpTo(_, _, _)
PathsUpTo(g, paths, k) ==
    IF k = 0 \/ paths = {} THEN paths
    ELSE paths \cup PathsUpTo(g, OneLonger(g, paths), k - 1)
SimplePathsFrom(g, s) == PathsUpTo(g, {<<s>>}, Len(g.nodes))
RECURSIVE PathWeight(_, _)
PathWeight(g, p) ==
    IF Len(p) < 2 THEN 0
    ELSE EdgeWeightBetween(g, p[1], p[2]) + PathWeight(g, Tail(p))
TrueDistance(g, s, v) ==
    LET ws == {PathWeight(g, p) : p \in {q \in SimplePathsFrom(g, s) : q[Len(q)] = v}}
    IN IF ws = {} THEN Infinity ELSE MinOf(ws)
Reachable(g, s, v) == \E p \in SimplePathsFrom(g, s) : p[Len(p)] = v
IsWalk(g, p) == \A i \in 1..(Len(p) - 1) : Joined(g, p[i], p[i + 1])

LastStep == result.steps[Len(result.steps)]
Returned == pc = "done"

\* C1: with positive weights and a start id of the graph, the last step of
\* runDijkstraAlgorithm holds, for every node, the minimum total weight over all
\* paths from the start (Infinity for a node no path reaches).
C1_TerminalDistancesAreShortest ==
    Returned =>
        \A v \in NodeIds(graph) :
            MapGet(LastStep.distances, v) = TrueDistance(graph, startNodeId, v)

\* a finished run in which one node is unreachable and another node's direct
\* edge from the start is strictly longer than a path through other nodes
C1_Witness ==
    /\ Returned
    /\ \E v \in NodeIds(graph) : ~Reachable(graph, startNodeId, v)
    /\ \E v \in NodeIds(graph) :
          /\ Joined(graph, startNodeId, v)
          /\ TrueDistance(graph, startNodeId, v) < EdgeWeightBetween(graph, startNodeId, v)
          /\ MapGet(LastStep.distances, v) = TrueDistance(graph, startNodeId, v)

\* C2: with positive weights and distinct start and end ids of the graph, if the
\* end node is reachable from the start node the run returns success = true and
\* a path that starts at startId, ends at endId and follows edges of the graph.
C2_ReachableEndGivesWalk ==
    (Returned /\ startNodeId # endNodeId /\ Reachable(graph, startNodeId, endNodeId)) =>
        /\ result.success
        /\ ~result.shortestPath.isNull
        /\ Len(result.shortestPath.path) >= 2
        /\ result.shortestPath.path[1] = startNodeId
        /\ result.shortestPath.path[Len(result.shortestPath.path)] = endNodeId
        /\ IsWalk(graph, result.shortestPath.path)

\* a finished run whose end node is reached through at least one other node
C2_Witness ==
    /\ Returned
    /\ startNodeId # endNodeId
    /\ Reachable(graph, startNodeId, endNodeId)
    /\ ~result.shortestPath.isNull
    /\ Len(result.shortestPath.path) >= 3

\* C3: whenever the run returns a non-null shortestPath, the weights of the edges
\* between its consecutive nodes sum to distances[endId] of the terminal step.
C3_PathWeightIsEndDistance ==
    (Returned /\ ~result.shortestPath.isNull) =>
        PathWeight(graph, result.shortestPath.path)
            = MapGet(LastStep.distances, endNodeId)

\* C4: for an end node not reachable from the start node, whatever its position
\* in the node list, the run returns success = false and shortestPath = null.
C4_UnreachableEndGivesNoPath ==
    (Returned /\ ~Reachable(graph, startNodeId, endNodeId)) =>
        (~result.success /\ result.shortestPath.isNull)

\* C5: the returned shortestDistance is the terminal distances[endId] when that
\* is finite, and null when endId never got a finite distance (never Infinity).
C5_ShortestDistanceFiniteOrNull ==
    Returned =>
        /\ result.shortestDistance # Infinity
        /\ result.shortestDistance =
              (IF MapGet(LastStep.distances, endNodeId) # Infinity
               THEN MapGet(LastStep.distances, endNodeId) ELSE NullNumber)

\* C6: invoked with endId = startId, for any node of the graph, the run returns
\* the single-element path [startId].
C6_SameNodePathIsSingleton ==
    (Returned /\ endNodeId = startNodeId) =>
        result.shortestPath = SomePath(<<startNodeId>>)

\* C7: invoked with endId = startId, the run returns shortestDistance 0.
C7_SameNodeDistanceIsZero ==
    (Returned /\ endNodeId = startNodeId) => result.shortestDistance = 0

DemoRunAE ==
    /\ Returned
    /\ graph = generateDemoGraph
    /\ startNodeId = "A"
    /\ endNodeId = "E"

\* C8 as stated: on the demo graph, A to E yields shortestDistance 8.
C8_DemoDistanceIsEight == DemoRunAE => result.shortestDistance = 8

\* C8 as amended: on the demo graph, A to E yields shortestDistance 10
\* (A-D 3, D-C 1, C-E 6).
C8_DemoDistanceIsTen == DemoRunAE => result.shortestDistance = 10

\* the demo run from A to E has returned a distance
C8_Witness == DemoRunAE /\ result.success /\ result.shortestDistance # NullNumber

\* C9: on the demo graph, A to E yields the path [A, D, C, E], and the returned
\* shortestDistance is the minimum weight over all simple A-to-E paths.
C9_DemoPathAndOracle ==
    DemoRunAE =>
        /\ result.shortestPath = SomePath(<<"A", "D", "C", "E">>)
        /\ result.shortestDistance =
              MinOf({PathWeight(graph, p) :
                       p \in {q \in SimplePathsFrom(graph, "A") : q[Len(q)] = "E"}})

\* the demo run from A to E has returned a path, and the graph has several
\* simple A-to-E paths of different weights for the oracle to choose among
C9_Witness ==
    /\ DemoRunAE
    /\ ~result.shortestPath.isNull
    /\ Cardinality({PathWeight(graph, p) :
                      p \in {q \in SimplePathsFrom(graph, "A") : q[Len(q)] = "E"}}) > 1

\* C10: distances[startId] is 0 in the initial step and in every step derived
\* from it by dijkstraNextStep (a further call on any step of the run, the
\* terminal step included, keeps it 0).
C10_StartDistanceIsZero ==
    /\ \A i \in 1..Len(steps) :
          /\ MapGet(steps[i].distances, startNodeId) = 0
          /\ MapGet(dijkstraNextStep(steps[i]).distances, startNodeId) = 0
    /\ pc # "start" => MapGet(currentStep.distances, startNodeId) = 0

\* a run of at least three steps whose start node has a neighbour, so that the
\* start node was current, was relaxed from and later steps followed
C10_Witness ==
    /\ Len(steps) >= 3
    /\ \E v \in NodeIds(graph) : Joined(graph, startNodeId, v)
    /\ MapGet(steps[Len(steps)].distances, startNodeId) = 0

Connected(g) == \A v \in NodeIds(g) : Reachable(g, g.nodes[1].id, v)

\* C11: across the dijkstraNextStep calls of a run, a node id that is in
\* visitedNodes of a step is in visitedNodes of every later step, with the same
\* distances entry (also after one more call on the last step).
C11_VisitedIsFinal ==
    \A i \in 1..Len(steps) : \A v \in steps[i].visitedNodes :
        /\ \A j \in (i + 1)..Len(steps) :
              /\ v \in steps[j].visitedNodes
              /\ MapGet(steps[j].distances, v) = MapGet(steps[i].distances, v)
        /\ v \in dijkstraNextStep(steps[Len(steps)]).visitedNodes
        /\ MapGet(dijkstraNextStep(steps[Len(steps)]).distances, v)
              = MapGet(steps[i].distances, v)

\* a node visited early is a neighbour of a node that is current in a later
\* step, so a relaxation towards the visited node was attempted
C11_Witness ==
    /\ Len(steps) >= 4
    /\ \E v \in steps[2].visitedNodes : \E j \in 3..(Len(steps) - 1) :
          /\ steps[j].currentNode # NullId
          /\ Joined(graph, steps[j].currentNode, v)
          /\ v \in steps[j + 1].visitedNodes

\* C12: dijkstraNextStep applied to a step with isDone = true or with
\* currentNode = null returns a step equal to it in every field.
C12_TerminalStepIsFixed ==
    /\ \A i \in 1..Len(steps) :
          (steps[i].isDone \/ steps[i].currentNode = NullId) =>
              dijkstraNextStep(steps[i]) = steps[i]
    /\ (pc # "start" /\ (currentStep.isDone \/ currentStep.currentNode = NullId)) =>
          dijkstraNextStep(currentStep) = currentStep

\* a returned run whose last step is done, has no current node and carries the
\* highlighted path
C12_Witness ==
    /\ Returned
    /\ LastStep.isDone
    /\ LastStep.currentNode = NullId
    /\ ~LastStep.shortestPath.isNull
    /\ Len(LastStep.shortestPath.path) >= 2
    /\ Cardinality(LastStep.visitedNodes) >= 3

\* C13: every dijkstraNextStep call on a non-terminal step shrinks
\* unvisitedNodes by exactly one, so the run makes at most one call per node
\* and then returns; on a connected graph it ends with every node visited.
\* (Termination by variant: the number of calls made plus the size of
\* unvisitedNodes stays at the node count plus one, and the while condition is
\* false at the latest when unvisitedNodes is empty.)
C13_EachCallVisitsOneAndRunEnds ==
    /\ \A i \in 1..(Len(steps) - 1) :
          ~steps[i].isDone =>
              Len(steps[i + 1].unvisitedNodes) = Len(steps[i].unvisitedNodes) - 1
    /\ pc = "loop" =>
          /\ Len(steps) + Len(currentStep.unvisitedNodes) = Len(graph.nodes) + 1
          /\ Len(steps) <= Len(graph.nodes) + 1
          /\ currentStep.unvisitedNodes = <<>> => ~LoopCondition
    /\ (Returned /\ Connected(graph)) =>
          /\ LastStep.isDone
          /\ LastStep.unvisitedNodes = <<>>
          /\ Len(result.steps) = Len(graph.nodes) + 1

\* a run on a connected graph has returned after one call per node
C13_Witness ==
    /\ Returned
    /\ Connected(graph)
    /\ Len(graph.nodes) >= 4
    /\ Len(result.steps) = Len(graph.nodes) + 1
    /\ LastStep.isDone

\* C15: initializeDijkstra(graph, startId) returns a step with distances 0 for
\* the start and Infinity for every other node, previous null for every node,
\* unvisitedNodes all node ids, visitedNodes empty, currentNode = startId,
\* isDone = false and shortestPath = null; it is the first step of the run.
C15_InitialStep ==
    LET s == initializeDijkstra(graph, startNodeId)
    IN /\ \A v \in NodeIds(graph) :
             /\ MapHas(s.distances, v) /\ MapHas(s.previous, v)
             /\ MapGet(s.distances, v) = (IF v = startNodeId THEN 0 ELSE Infinity)
             /\ MapGet(s.previous, v) = NullId
       /\ Len(s.distances) = Len(graph.nodes)
       /\ Len(s.previous) = Len(graph.nodes)
       /\ SeqToSet(s.unvisitedNodes) = NodeIds(graph)
       /\ Len(s.unvisitedNodes) = Len(graph.nodes)
       /\ s.visitedNodes = {}
       /\ s.currentNode = startNodeId
       /\ s.isDone = FALSE
       /\ s.shortestPath = NullPath
       /\ Len(steps) >= 1 => steps[1] = s

\* the run has just been initialized from a start node that is not the first
\* node of the list
C15_Witness ==
    /\ pc = "loop"
    /\ Len(steps) = 1
    /\ currentStep = steps[1]
    /\ startNodeId # graph.nodes[1].id
    /\ MapGet(steps[1].distances, graph.nodes[1].id) = Infinity

NoFiniteUnvisited(step) ==
    \A v \in SeqToSet(step.unvisitedNodes) : MapGet(step.distances, v) = Infinity

\* C17: with positive weights, dijkstraNextStep on a non-terminal step returns
\* isDone = true with currentNode = null exactly when, after relaxation, no
\* unvisited node has a finite distance; otherwise it returns isDone = false
\* with currentNode an unvisited node.
C17_DoneIffNoFiniteUnvisited ==
    \A i \in 1..(Len(steps) - 1) :
        ~IsTerminal(steps[i]) =>
            LET t == steps[i + 1]
            IN IF NoFiniteUnvisited(t)
               THEN t.isDone /\ t.currentNode = NullId
               ELSE /\ ~t.isDone
                    /\ t.currentNode \in SeqToSet(t.unvisitedNodes)

\* a run that went on while a finite unvisited node existed and ended with
\* unreachable nodes still unvisited
C17_Witness ==
    /\ Returned
    /\ Len(result.steps) >= 3
    /\ ~NoFiniteUnvisited(result.steps[2])
    /\ LastStep.unvisitedNodes # <<>>
    /\ LastStep.isDone

\* C19: visualizeShortestPath applied to a path of fewer than 2 elements returns
\* a graph identical to its input (nodes, edges and statuses).
C19_ShortPathLeavesGraph ==
    /\ \A i \in 1..Len(steps) :
          /\ visualizeShortestPath(steps[i].graph, <<>>) = steps[i].graph
          /\ \A v \in NodeIds(graph) :
                visualizeShortestPath(steps[i].graph, <<v>>) = steps[i].graph
    /\ (Returned /\ ~result.shortestPath.isNull /\ Len(result.shortestPath.path) < 2) =>
          LastStep.graph = currentStep.graph

\* the run returned a one-element path and its last graph has a node marked
\* visited, which a highlight of that node alone would have changed
C19_Witness ==
    /\ Returned
    /\ ~result.shortestPath.isNull
    /\ Len(result.shortestPath.path) = 1
    /\ \E i \in 1..Len(LastStep.graph.nodes) : LastStep.graph.nodes[i].status = "visited"

InputStatus(v) == (CHOOSE n \in SeqToSet(graph.nodes) : n.id = v).status
StatusIn(g, v) == (CHOOSE n \in SeqToSet(g.nodes) : n.id = v).status

\* C16 as stated: in the graph copy of initializeDijkstra the start node has
\* status 'start', a node with status 'end' keeps it, and every other node
\* keeps exactly the status it had in the input graph.
C16_OtherStatusesKept ==
    Len(steps) >= 1 =>
        \A v \in NodeIds(graph) :
            StatusIn(steps[1].graph, v) =
                (IF v = startNodeId THEN "start" ELSE InputStatus(v))

\* C16 as amended: the start node has status 'start', another node with status
\* 'end' keeps 'end', and every other node has status 'default'; ids and edges
\* are those of the input graph.
C16_OtherStatusesReset ==
    Len(steps) >= 1 =>
        /\ \A v \in NodeIds(graph) :
              StatusIn(steps[1].graph, v) =
                  (IF v = startNodeId THEN "start"
                   ELSE IF InputStatus(v) = "end" THEN "end" ELSE "default")
        /\ [i \in 1..Len(steps[1].graph.nodes) |-> steps[1].graph.nodes[i].id]
              = [i \in 1..Len(graph.nodes) |-> graph.nodes[i].id]
        /\ steps[1].graph.edges = graph.edges

\* an initialized run whose input had a node marked 'end' and a node marked
\* 'start' that is not the start node
C16_Witness ==
    /\ Len(steps) >= 1
    /\ \E v, w \in NodeIds(graph) :
          /\ v # startNodeId /\ w # startNodeId
          /\ InputStatus(v) = "end" /\ StatusIn(steps[1].graph, v) = "end"
          /\ InputStatus(w) = "start" /\ StatusIn(steps[1].graph, w) = "default"

\* C18: the stepping repeats until the end node is reached or no path exists:
\* once the end node (distinct from the start) has been visited, the run is
\* finished and no later call processes a further node.
C18_StopsAtEndNode ==
    startNodeId # endNodeId =>
        \A i \in 1..(Len(steps) - 1) :
            endNodeId \in steps[i].visitedNodes =>
                /\ steps[i].isDone
                /\ steps[i + 1].visitedNodes = steps[i].visitedNodes

\* the last step with the path overlay of lines 209-213
WithOverlay(step) ==
    IF ~result.shortestPath.isNull /\ Len(result.shortestPath.path) > 0
    THEN [step EXCEPT !.graph = visualizeShortestPath(step.graph,
                                                      result.shortestPath.path),
                      !.shortestPath = result.shortestPath]
    ELSE step

\* C14: steps[0] is initializeDijkstra(graph, startId) and each later step is
\* dijkstraNextStep of the one before (the last one with the path overlay); and
\* every element of the steps array, read through the objects it refers to,
\* still has the contents it was produced with: later calls and the overlay
\* write to no object of an earlier step.
C14_StepsAreProducedAndKept ==
    /\ Len(steps) >= 1 => steps[1] = initializeDijkstra(graph, startNodeId)
    /\ \A i \in 1..(Len(steps) - 1) :
          steps[i + 1] = IF Returned /\ i + 1 = Len(steps)
                         THEN WithOverlay(dijkstraNextStep(steps[i]))
                         ELSE dijkstraNextStep(steps[i])
    /\ Returned => result.steps = steps
    /\ objects =>
          /\ Len(stepRefs) = Len(steps)
          /\ \A i \in 1..Len(stepRefs) : Deref(heap, stepRefs[i]) = steps[i]
          /\ pc # "start" => Deref(heap, currentRef) = currentStep

\* a returned run of at least four steps whose last step carries a highlighted
\* path of at least two nodes, and whose distances were rewritten after the
\* second step was produced
C14_Witness ==
    /\ objects
    /\ Returned
    /\ Len(steps) >= 4
    /\ ~LastStep.shortestPath.isNull
    /\ Len(LastStep.shortestPath.path) >= 2
    /\ LastStep.graph # currentStep.graph
    /\ steps[2].distances # steps[3].distances
    /\ Deref(heap, stepRefs[2]).distances = steps[2].distances

\* C21: with weights that include 0, a tentative distance of 0 counts as a
\* finite distance: a step that leaves an unvisited node at distance 0 is not
\* done, and the returned run has visited every reachable node and holds its
\* true shortest distance.
C21_ZeroDistanceIsFinite ==
    /\ \A i \in 2..Len(steps) :
          (\E v \in SeqToSet(steps[i].unvisitedNodes) :
              MapGet(steps[i].distances, v) = 0) => ~steps[i].isDone
    /\ Returned =>
          \A v \in NodeIds(graph) :
              Reachable(graph, startNodeId, v) =>
                  /\ v \in LastStep.visitedNodes
                  /\ MapGet(LastStep.distances, v) = TrueDistance(graph, startNodeId, v)

\* every sequence of at least two node ids of g, no longer than its node list
IdPaths(g) == UNION {[1..n -> NodeIds(g)] : n \in 2..Len(g.nodes)}
\* what the overlay of path on g has to be
Highlighted(g, path) ==
    [nodes |-> [i \in 1..Len(g.nodes) |->
                  [id |-> g.nodes[i].id,
                   status |-> IF g.nodes[i].status \in {"start", "end"}
                              THEN g.nodes[i].status
                              ELSE IF g.nodes[i].id \in SeqToSet(path) THEN "path"
                                   ELSE g.nodes[i].status]],
     edges |-> [j \in 1..Len(g.edges) |->
                  [id |-> g.edges[j].id, source |-> g.edges[j].source,
                   target |-> g.edges[j].target, weight |-> g.edges[j].weight,
                   status |-> IF \E k \in 1..(Len(path) - 1) :
                                    {path[k], path[k + 1]}
                                        = {g.edges[j].source, g.edges[j].target}
                              THEN "path" ELSE g.edges[j].status]]]

\* C22: for a path of at least two ids, visualizeShortestPath returns the graph
\* in which path nodes that are not 'start' or 'end' are 'path', edges joining
\* adjacent path elements in either orientation are 'path', and every other
\* node and edge is as in the input; the graph object it was given is not
\* written, the result being a new object.
C22_PathOverlay ==
    /\ \A g \in {graph} \cup {steps[i].graph : i \in 1..Len(steps)} :
          \A path \in IdPaths(g) : visualizeShortestPath(g, path) = Highlighted(g, path)
    /\ (objects /\ Returned /\ ~result.shortestPath.isNull
           /\ Len(result.shortestPath.path) >= 2) =>
          /\ LastStep.graph = Highlighted(currentStep.graph, result.shortestPath.path)
          /\ heap[heap[currentRef].graph] = currentStep.graph
          /\ heap[stepRefs[Len(stepRefs)]].graph # heap[currentRef].graph
          /\ heap[heap[stepRefs[Len(stepRefs)]].graph] = LastStep.graph

\* a returned run whose path A, B, C walks the edge C-B against its
\* orientation and turns the visited node B into 'path'; the same path laid
\* over the graph as it came in leaves C, which is 'end' there, as 'end'
C22_Witness ==
    /\ objects
    /\ Returned
    /\ result.shortestPath = SomePath(<<"A", "B", "C">>)
    /\ currentStep.graph.nodes[2].status = "visited"
    /\ LastStep.graph.nodes[2].status = "path"
    /\ LastStep.graph.edges[2].source = "C"
    /\ LastStep.graph.edges[2].status = "path"
    /\ graph.nodes[3].status = "end"
    /\ visualizeShortestPath(graph, result.shortestPath.path).nodes[3].status = "end"
    /\ visualizeShortestPath(graph, result.shortestPath.path).nodes[2].status = "path"

\* C23: a node other than the start that comes in with status 'end' is still
\* 'end' in every step before the path overlay in which it is visited, is not
\* currentNode and is not drawn as the node being processed.
C23_EndStaysEnd ==
    \A k \in 1..Len(graph.nodes) :
        (graph.nodes[k].status = "end" /\ graph.nodes[k].id # startNodeId) =>
            \A i \in 1..Len(steps) :
                (/\ ~(Returned /\ i = Len(steps))
                 /\ graph.nodes[k].id \in steps[i].visitedNodes
                 /\ steps[i].currentNode # graph.nodes[k].id
                 /\ steps[i].graph.nodes[k].status # "current") =>
                    steps[i].graph.nodes[k].status = "end"

\* C24: startAlgorithm called with startNodeId or endNodeId unset, or with the
\* two equal, does not run the engine (result stays as it was) and leaves
\* isRunning, algorithmSteps, currentStepIndex, result, graph and editorMode
\* unchanged.
C24_RefusedStartChangesNothing ==
    [][(/\ startAlgorithmCalled
        /\ (startNodeId = NullId \/ endNodeId = NullId \/ startNodeId = endNodeId))
          => UNCHANGED <<isRunning, algorithmSteps, currentStepIndex, result,
                         graph, editorMode>>]_vars

\* a start refused for a missing end node: the error is shown, nothing runs
C24_Witness ==
    /\ toastError = "Please select both start and end nodes"
    /\ startNodeId # NullId
    /\ endNodeId = NullId
    /\ ~isRunning
    /\ result = NoResult
    /\ algorithmSteps = <<>>

\* C25: whenever the Start button makes startAlgorithm call
\* runDijkstraAlgorithm, the startNodeId and endNodeId it passes are ids of
\* nodes of the graph it passes.
C25_RunIdsExist ==
    [][(onStartAlgorithm /\ StartRefusal(startNodeId, endNodeId) = "none")
          => /\ startNodeId \in NodeIds(resetGraphStatus(graph))
             /\ endNodeId \in NodeIds(resetGraphStatus(graph))]_vars

\* C26: after any sequence of editor operations every edge's source and
\* target are ids of nodes of the graph, and no unordered pair of nodes is
\* joined by more than one edge.
C26_EdgesWellFormed ==
    /\ \A i \in 1..Len(graph.edges) :
          /\ graph.edges[i].source \in NodeIds(graph)
          /\ graph.edges[i].target \in NodeIds(graph)
    /\ \A i, j \in 1..Len(graph.edges) :
          {graph.edges[i].source, graph.edges[i].target}
              = {graph.edges[j].source, graph.edges[j].target} => i = j

\* C27: resetAlgorithm stops the auto-run timer: after it isRunning is false,
\* algorithmSteps is empty, currentStepIndex is 0, result is null and no
\* interval is left; an interval that is alive always belongs to the run that
\* is shown, so no tick of a cancelled auto-run changes currentStepIndex or
\* the displayed graph.
C27_ResetStopsTimer ==
    /\ [][resetAlgorithm =>
             /\ isRunning' = FALSE
             /\ algorithmSteps' = <<>>
             /\ currentStepIndex' = 0
             /\ result' = NoResult
             /\ autoRunIntervalRef' = FALSE]_vars
    /\ [](autoRunIntervalRef => (isRunning /\ autoRunSteps = algorithmSteps))
    /\ [][(autoRunTick /\ ~isRunning) => UNCHANGED <<currentStepIndex, graph>>]_vars

\* the page after a run was shown and reset: the start node still carries the
\* 'start' status of the run, nothing runs and no interval is alive
C27_Witness ==
    /\ ~isRunning
    /\ algorithmSteps = <<>>
    /\ currentStepIndex = 0
    /\ result = NoResult
    /\ ~autoRunIntervalRef
    /\ startNodeId = "A"
    /\ \E k \in 1..Len(graph.nodes) :
          graph.nodes[k].id = "A" /\ graph.nodes[k].status = "start"

\* C28: when start-node selection is armed, a click on an existing node sets
\* startNodeId to that node's id and disarms the selection, whatever node was
\* selected in the canvas before.
C28_ArmedClickSetsStart ==
    [][\A clickedId \in NodeIds(graph) \cap PickedNodes :
          (/\ selectingStartNode
           /\ editorMode = "edit" /\ ~isRunning /\ pendingEdge = NoPendingEdge
           /\ handleCanvasClickAt(clickedId))
             => (startNodeId' = clickedId /\ ~selectingStartNode')]_vars

\* C29: whenever isRunning is true, currentStepIndex is a valid index into
\* algorithmSteps and the displayed graph is algorithmSteps[currentStepIndex].graph
\* (indices from 0 in the page, from 1 here).
C29_ShownGraphIsStepGraph ==
    isRunning =>
        /\ currentStepIndex \in 0..(Len(algorithmSteps) - 1)
        /\ graph = algorithmSteps[currentStepIndex + 1].graph

\* C30: a tick fires only while the interval is alive; before the last step
\* it advances currentStepIndex by exactly one and shows that step's graph,
\* and it clears the interval exactly when the step it shows is the last; a
\* tick that finds the last step already shown changes neither the index nor
\* the graph and clears the interval, so that no further tick follows.
C30_TickAdvancesByOne ==
    [][autoRunTick =>
         /\ autoRunIntervalRef
         /\ IF currentStepIndex < Len(algorithmSteps) - 1
            THEN /\ currentStepIndex' = currentStepIndex + 1
                 /\ graph' = algorithmSteps[currentStepIndex' + 1].graph
                 /\ autoRunIntervalRef' = (currentStepIndex' < Len(algorithmSteps) - 1)
            ELSE /\ UNCHANGED <<currentStepIndex, graph>>
                 /\ autoRunIntervalRef' = FALSE]_vars

\* an auto-run that is alive with the step before the last on display: the
\* next tick shows the last step and clears the interval
C30_Witness ==
    /\ isRunning
    /\ autoRunIntervalRef
    /\ autoRunSteps = algorithmSteps
    /\ currentStepIndex >= 1
    /\ currentStepIndex = Len(algorithmSteps) - 2
    /\ graph = algorithmSteps[currentStepIndex + 1].graph

\* the node ids of a graph and its edges as ends with weight
Structure(g) ==
    [nodes |-> NodeIds(g),
     edges |-> {<<g.edges[i].source, g.edges[i].target, g.edges[i].weight>> :
                   i \in 1..Len(g.edges)}]

\* C31: while isRunning is true, no editor or page action (canvas click, node
\* drag, node or edge delete, confirmation of a pending edge, load demo, clear
\* graph) changes the graph's set of nodes, set of edges or edge weights.
C31_NoEditWhileRunning ==
    [][(/\ isRunning
        /\ \/ handleCanvasClickOnNode
           \/ handleCanvasClickOnCanvas
           \/ handleNodeDrag
           \/ handleNodeContextMenu
           \/ handleEdgeContextMenu
           \/ confirmEdgeCreation
           \/ handleLoadDemoGraph
           \/ handleClearGraph)
          => Structure(graph') = Structure(graph)]_vars

\* visitedNodes and unvisitedNodes split the node ids, and a current node is
\* unvisited with a finite distance
Partitioned(step, g) ==
    /\ step.visitedNodes \cap SeqToSet(step.unvisitedNodes) = {}
    /\ step.visitedNodes \cup SeqToSet(step.unvisitedNodes) = NodeIds(g)
    /\ step.currentNode # NullId =>
          /\ step.currentNode \in SeqToSet(step.unvisitedNodes)
          /\ MapHas(step.distances, step.currentNode)
          /\ MapGet(step.distances, step.currentNode) # Infinity
          /\ MapGet(step.distances, step.currentNode) >= 0

\* C32: in every step reachable from initializeDijkstra with a valid start id,
\* visitedNodes and unvisitedNodes are disjoint and their union is the set of
\* all node ids, and whenever currentNode is not null it is a member of
\* unvisitedNodes with a finite distance.
C32_VisitedUnvisitedPartition ==
    /\ \A i \in 1..Len(steps) : Partitioned(steps[i], graph)
    /\ pc # "start" => Partitioned(currentStep, graph)

\* a step in the middle of a run: two nodes visited, the current node at a
\* positive distance and a node beside it that is still unreached
C32_Witness ==
    /\ pc = "loop"
    /\ Cardinality(currentStep.visitedNodes) = 2
    /\ currentStep.currentNode # NullId
    /\ MapGet(currentStep.distances, currentStep.currentNode) > 0
    /\ \E v \in SeqToSet(currentStep.unvisitedNodes) :
          v # currentStep.currentNode /\ MapGet(currentStep.distances, v) = Infinity

\* C33: in the graph of every step of a run, the terminal step after path
\* highlighting included, the node with id startId has status 'start'.
C33_StartStaysStart ==
    \A i \in 1..Len(steps) :
        \A k \in 1..Len(steps[i].graph.nodes) :
            steps[i].graph.nodes[k].id = startNodeId =>
                steps[i].graph.nodes[k].status = "start"

\* C34: whenever an edge is pending confirmation, the weight popover is open
\* or its timer is about to open it, so that Confirm or Cancel can be pressed;
\* the editor is never in a state where pendingEdge is set, the popover is
\* closed and no timer is left to open it.
C34_PendingEdgeHasPopover ==
    pendingEdge # NoPendingEdge => (popoverOpen \/ popoverTimer)

====
